---- MODULE Spec2Model ----
(***************************************************************************)
(* A model of @hoajs/etag: the streaming digest accumulator of             *)
(* src/src/digest.ts (generateDigest) and the ETag policy of               *)
(* src/src/index.ts (etag / etagMiddleware / etagMatches).                 *)
(*                                                                         *)
(* Strings are sequences of one-character strings, byte buffers are        *)
(* sequences of numbers in 0..255, and a value that may be null/undefined  *)
(* is a set holding no element (None) or one (Some(x)).                    *)
(*                                                                         *)
(* One request is followed through the middleware.  The steps are the      *)
(* synchronous segments between its awaits: the capture of the request     *)
(* (lines 115-116), next() (118), the lookup of the ETag and the call of   *)
(* generateDigest (120-125), every reader.read() (digest.ts 19-21), the    *)
(* end of the stream with the hash (digest.ts 20-27), the continuation     *)
(* after the digest (126-132) and the 304 evaluation (135-144).            *)
(*                                                                         *)
(* The host framework is outside the repository: its header store keeps    *)
(* names lower-cased (a Headers object), ctx.res.headers enumerates those  *)
(* names, and ctx.response.body is an independent readable snapshot of     *)
(* the body, as spec.md section 6 states.                                  *)
(***************************************************************************)
EXTENDS Naturals, Integers, Sequences, FiniteSets, TLC

VARIABLES
  crypto,          \* whether crypto.subtle exists on the host
  options,         \* the ETagOptions given to etag()
  retainedHeaders, \* closure constant of etag(): the retained names
  weak,            \* closure constant of etag()
  generator,       \* closure constant of etag(): None or Some(generator id)
  pc,              \* position of the request in etagMiddleware / generateDigest
  req,             \* the request: method and raw If-None-Match header
  method,          \* local of etagMiddleware (line 115)
  ifNoneMatch,     \* local of etagMiddleware (line 116)
  res,             \* ctx.res: status, body, headers
  handled,         \* the response as the downstream handler left it
  nextCalls,       \* number of invocations of next()
  etag,            \* local of etagMiddleware (lines 120, 129)
  source,          \* the stream generateDigest was called with
  stream,          \* the chunks the reader has not read yet
  accumulated,     \* local of generateDigest (line 16)
  hashCalls,       \* number of invocations of the generator
  hashInput,       \* the buffer the generator was last invoked on
  hash             \* the value generateDigest returned

vars == <<crypto, options, retainedHeaders, weak, generator, pc, req, method,
          ifNoneMatch, res, handled, nextCalls, etag, source, stream,
          accumulated, hashCalls, hashInput, hash>>

digestVars == <<source, stream, accumulated, hashCalls, hashInput, hash>>
configVars == <<crypto, options, retainedHeaders, weak, generator>>

-----------------------------------------------------------------------------
(* null / undefined *)

None == {}
Some(x) == {x}
Get(o) == CHOOSE x \in o : TRUE

-----------------------------------------------------------------------------
(* Bounds of the model *)

\* chunks a body stream yields at most
MaxChunks == 2
\* candidates an If-None-Match list carries at most
MaxCandidates == 2
\* bytes the model of the platform SHA-1 returns (20 on the platform)
Sha1Bytes == 2

-----------------------------------------------------------------------------
(* Strings *)

QUOTE == "\""
STAR == <<"*">>
WEAK == <<"W", "/">>
Quoted(s) == <<QUOTE>> \o s \o <<QUOTE>>

\* \s of the regular expressions and of String.prototype.trim
isSpace(c) == c = " "

RECURSIVE trimStart(_)
trimStart(s) ==
  IF s # <<>> /\ isSpace(Head(s)) THEN trimStart(Tail(s)) ELSE s

RECURSIVE trimEnd(_)
trimEnd(s) ==
  IF s # <<>> /\ isSpace(s[Len(s)])
    THEN trimEnd(SubSeq(s, 1, Len(s) - 1))
    ELSE s

\* String.prototype.trim, line 116
trim(s) == trimEnd(trimStart(s))

\* header names as the handler and the options write them, and
\* String.prototype.toLowerCase on them (line 109; the header store)
toLowerCase(h) ==
  CASE h = "ETag" -> "etag"
    [] h = "Cache-Control" -> "cache-control"
    [] h = "Content-Type" -> "content-type"
    [] h = "X-Custom-Header" -> "x-custom-header"
    [] OTHER -> h

-----------------------------------------------------------------------------
(* src/src/digest.ts *)

\* variant: the new chunk is put in front of the accumulated bytes
mergeBuffersSwapped(buffer1, buffer2) ==
  IF buffer1 = None THEN buffer2 ELSE buffer2 \o Get(buffer1)

\* mergeBuffers, lines 1-9: buffer1 is None (undefined) or Some(bytes)
mergeBuffers(buffer1, buffer2) ==
  IF buffer1 = None THEN buffer2 ELSE Get(buffer1) \o buffer2

HexDigits ==
  <<"0", "1", "2", "3", "4", "5", "6", "7",
    "8", "9", "a", "b", "c", "d", "e", "f">>

\* Number.prototype.toString(16), line 26
RECURSIVE toString16(_)
toString16(x) ==
  IF x < 16
    THEN <<HexDigits[x + 1]>>
    ELSE toString16(x \div 16) \o <<HexDigits[(x % 16) + 1]>>

\* String.prototype.padStart(2, '0'), line 26
padStart2(s) == IF Len(s) < 2 THEN <<"0">> \o s ELSE s

\* Array.prototype.map.call(new Uint8Array(result), ...).join(''), lines 25-27
RECURSIVE hexJoin(_)
hexJoin(result) ==
  IF result = <<>>
    THEN <<>>
    ELSE padStart2(toString16(Head(result))) \o hexJoin(Tail(result))

\* The hash primitives are injected capabilities: pure functions from a
\* byte buffer to a fixed number of bytes.  They are modelled by a
\* polynomial checksum of the buffer, one byte per seed.
RECURSIVE checksum(_, _)
checksum(body, h) ==
  IF body = <<>> THEN h ELSE checksum(Tail(body), (h * 31 + Head(body)) % 256)

\* crypto.subtle.digest({ name: 'SHA-1' }, body), index.ts lines 164-170
sha1(body) == [i \in 1..Sha1Bytes |-> checksum(body, (i * 89 + 7) % 256)]

\* a custom options.generateDigest with a longer output (SHA-256 in the tests)
customDigest(body) ==
  [i \in 1..(Sha1Bytes + 1) |-> checksum(body, (i * 53 + 1) % 256)]

\* generator(accumulated), line 24
callGenerator(g, body) == IF g = "custom" THEN customDigest(body) ELSE sha1(body)

\* lines 23-27 of generateDigest, once the reader reported done
digestOf(acc, g) ==
  IF acc = None THEN None ELSE Some(hexJoin(callGenerator(g, Get(acc))))

-----------------------------------------------------------------------------
(* src/src/index.ts *)

\* RETAINED_304_HEADERS, lines 89-96
RETAINED_304_HEADERS ==
  <<"cache-control", "content-location", "date", "etag", "expires", "vary">>

\* Array.prototype.includes
includes(array, x) == \E i \in 1..Len(array) : array[i] = x

\* variant: the configured names taken as written (no toLowerCase)
initRetainedHeadersAsWritten(o) ==
  IF o # None THEN Get(o) ELSE RETAINED_304_HEADERS

\* lines 108-110 of etag(): o is options.retainedHeaders, None or Some(array)
initRetainedHeaders(o) ==
  IF o # None
    THEN [i \in 1..Len(Get(o)) |-> toLowerCase(Get(o)[i])]
    ELSE RETAINED_304_HEADERS

\* line 111 of etag(): o is options.weak
initWeak(o) == IF o # None THEN Get(o) ELSE FALSE

\* variant: the platform SHA-1 assumed without looking for crypto.subtle
initializeGeneratorUnchecked(g, hasCrypto) ==
  IF g = None THEN Some("sha1") ELSE g

\* initializeGenerator, lines 159-175
initializeGenerator(g, hasCrypto) ==
  IF g = None
    THEN IF hasCrypto THEN Some("sha1") ELSE None
    ELSE g

\* stripWeak, lines 148-150: tag.replace(/^W\//, '')
stripWeak(tag) ==
  IF Len(tag) >= 2 /\ tag[1] = "W" /\ tag[2] = "/"
    THEN SubSeq(tag, 3, Len(tag))
    ELSE tag

\* the first index from i on that holds no white space
RECURSIVE skipSpaces(_, _)
skipSpaces(s, i) ==
  IF i <= Len(s) /\ isSpace(s[i]) THEN skipSpaces(s, i + 1) ELSE i

\* variant: the separator /,\s*/, which leaves white space before a comma
matchSeparatorCommaFirst(s, q) ==
  IF q <= Len(s) /\ s[q] = "," THEN skipSpaces(s, q + 1) ELSE 0

\* a match of /\s*,\s*/ that starts at q: the index after it, or 0
matchSeparator(s, q) ==
  LET k == skipSpaces(s, q)
  IN  IF k <= Len(s) /\ s[k] = "," THEN skipSpaces(s, k + 1) ELSE 0

\* String.prototype.split with the separator of line 156: p is the start
\* of the current piece, q the position tried next
RECURSIVE splitFrom(_, _, _)
splitFrom(s, p, q) ==
  IF q > Len(s)
    THEN <<SubSeq(s, p, Len(s))>>
    ELSE LET e == matchSeparator(s, q)
         IN  IF e = 0
               THEN splitFrom(s, p, q + 1)
               ELSE <<SubSeq(s, p, q - 1)>> \o splitFrom(s, e, e)

split(s) == splitFrom(s, 1, 1)

\* variant: `*` matches whatever the method is
etagMatchesAnyMethod(tag, inm, m) ==
  IF inm = None
    THEN FALSE
    ELSE IF Get(inm) = STAR
      THEN TRUE
      ELSE \E i \in 1..Len(split(Get(inm))) :
             stripWeak(split(Get(inm))[i]) = stripWeak(tag)

\* etagMatches, lines 152-157: inm is None (null) or Some(string)
etagMatches(tag, inm, m) ==
  IF inm = None
    THEN FALSE
    ELSE IF Get(inm) = STAR
      THEN m = "GET" \/ m = "HEAD"
      ELSE \E i \in 1..Len(split(Get(inm))) :
             stripWeak(split(Get(inm))[i]) = stripWeak(tag)

\* variant: the upper end of the status range is included
shouldReturn304UpTo300(tag, inm, m, status) ==
  status >= 200 /\ status <= 300 /\ etagMatches(tag, inm, m)

\* variant: the match alone, whatever the status is
shouldReturn304AnyStatus(tag, inm, m, status) == etagMatches(tag, inm, m)

\* the condition of line 136
shouldReturn304(tag, inm, m, status) ==
  status >= 200 /\ status < 300 /\ etagMatches(tag, inm, m)

\* variant: the digest is not quoted
formatETagUnquoted(h, w) == IF w THEN WEAK \o h ELSE h

\* line 129
formatETag(h, w) == IF w THEN WEAK \o Quoted(h) ELSE Quoted(h)

\* the header store: names are kept lower-cased
setHeader(headers, name, value) ==
  [n \in DOMAIN headers \cup {toLowerCase(name)} |->
     IF n = toLowerCase(name) THEN value ELSE headers[n]]

getHeader(headers, name) ==
  IF toLowerCase(name) \in DOMAIN headers
    THEN Some(headers[toLowerCase(name)])
    ELSE None

\* lines 139-143: delete every header the retained list does not include
deleteUnretained(headers, retained) ==
  [n \in {h \in DOMAIN headers : includes(retained, h)} |-> headers[n]]

-----------------------------------------------------------------------------
(* The inputs: configurations, requests and downstream handlers *)

\* the ETag a downstream handler sets by hand
TagH == Quoted(<<"h">>)
\* the strong ETag of the body <<7>> under the platform SHA-1: the tag a
\* client cached from an earlier response
TagD == Quoted(hexJoin(sha1(<<7>>)))

Methods == {"GET", "HEAD", "POST"}

\* the candidates of an If-None-Match list, and its separators
Candidates == {STAR, TagD, WEAK \o TagH}
Separators == {<<",", " ">>, <<" ", ",", " ">>}

RECURSIVE join(_, _)
join(list, sep) ==
  IF list = <<>>
    THEN <<>>
    ELSE IF Len(list) = 1
      THEN list[1]
      ELSE list[1] \o sep \o join(Tail(list), sep)

CandidateLists(k) == [1..k -> Candidates]

\* the values of the If-None-Match header: absent, empty, one candidate
\* (also surrounded by white space), or a list of candidates
IfNoneMatchValues ==
  {None}
    \cup {Some(<<>>), Some(<<" ">>)}
    \cup {Some(c) : c \in Candidates}
    \cup {Some(<<" ">> \o c \o <<" ">>) : c \in Candidates}
    \cup {Some(join(l, sep)) :
            l \in UNION {CandidateLists(k) : k \in 2..MaxCandidates},
            sep \in Separators}

\* the options given to etag(), and the host's crypto
RetainedOptions ==
  {None, Some(<<"ETag", "X-Custom-Header">>), Some(<<"x-custom-header">>)}
OptionsValues ==
  [retainedHeaders : RetainedOptions,
   weak : {None, Some(TRUE)},
   generateDigest : {None, Some("custom")}]

\* what a downstream handler leaves in ctx.res
Statuses == {199, 200, 299, 300}
HandlerETags == {None, Some(TagH), Some(WEAK \o TagH), Some(STAR), Some(WEAK)}
HandlerBodies ==
  {None, Some(<<>>), Some(<< <<7>> >>), Some(<< <<>>, <<250>> >>)}
NoHeaders == [n \in {} |-> <<>>]
HandlerHeaders ==
  {NoHeaders,
   setHeader(setHeader(setHeader(NoHeaders,
     "Cache-Control", <<"m">>), "Content-Type", <<"t">>),
     "X-Custom-Header", <<"k">>)}

\* the streams generateDigest is called with on its own
ChunkValues == {<<>>, <<7>>, <<250>>, <<7, 250>>}
DigestStreams ==
  {None} \cup {Some(c) : c \in UNION {[1..k -> ChunkValues] : k \in 0..MaxChunks}}

-----------------------------------------------------------------------------
(* The state machine *)

InitialResponse == [status |-> 404, body |-> None, headers |-> NoHeaders]

InitRequest ==
  /\ pc = "Pending"
  /\ method = None
  /\ ifNoneMatch = None
  /\ res = InitialResponse
  /\ handled = InitialResponse
  /\ nextCalls = 0
  /\ etag = None

InitDigest ==
  /\ source = None
  /\ stream = <<>>
  /\ accumulated = None
  /\ hashCalls = 0
  /\ hashInput = None
  /\ hash = None

\* etag(options), lines 107-112, and a request that reaches the middleware
Init ==
  /\ crypto \in BOOLEAN
  /\ options \in OptionsValues
  /\ options.generateDigest # None => crypto
  /\ retainedHeaders = initRetainedHeaders(options.retainedHeaders)
  /\ weak = initWeak(options.weak)
  /\ generator = initializeGenerator(options.generateDigest, crypto)
  /\ req \in [method : Methods, ifNoneMatch : IfNoneMatchValues]
  /\ InitRequest
  /\ InitDigest

\* etagMiddleware, lines 115-116
Capture ==
  /\ pc = "Pending"
  /\ method' = Some(req.method)
  /\ ifNoneMatch' =
       IF req.ifNoneMatch = None THEN None ELSE Some(trim(Get(req.ifNoneMatch)))
  /\ pc' = "AwaitNext"
  /\ UNCHANGED <<configVars, digestVars, req, res, handled, nextCalls, etag>>

\* await next(), line 118: the downstream handler produces the response
Handler ==
  /\ pc = "AwaitNext"
  /\ \E s \in Statuses, b \in HandlerBodies, t \in HandlerETags,
        h \in HandlerHeaders :
       res' = [status |-> s, body |-> b,
               headers |-> IF t = None THEN h ELSE setHeader(h, "ETag", Get(t))]
  /\ handled' = res'
  /\ nextCalls' = nextCalls + 1
  /\ pc' = "HandlerInvoked"
  /\ UNCHANGED <<configVars, digestVars, req, method, ifNoneMatch, etag>>

\* ctx.response.body, line 125: the framework's readable snapshot of the
\* body, independent of the body that is sent to the client (spec.md,
\* section 6); reading it leaves ctx.res.body as it is
responseBody(r) == r.body

\* generateDigest, lines 11-17: the call, up to the first reader.read()
generateDigest(s) ==
  /\ source' = s
  /\ accumulated' = None
  /\ stream' = IF s = None THEN <<>> ELSE Get(s)
  /\ pc' = IF s = None THEN "DigestReturned" ELSE "Reading"
  /\ hash' = None
  /\ UNCHANGED <<hashCalls, hashInput>>

\* !etag, line 121: null, undefined or the empty string
falsy(t) == t = None \/ Get(t) = <<>>

\* etagMiddleware, lines 120-125 (and 132 when the handler set the ETag)
ResolveETag ==
  /\ pc = "HandlerInvoked"
  /\ LET found == getHeader(res.headers, "ETag")
     IN  IF ~falsy(found)
           THEN /\ etag' = found
                /\ res' = [res EXCEPT !.headers = setHeader(@, "ETag", Get(found))]
                /\ pc' = "ETagResolved"
                /\ UNCHANGED digestVars
           ELSE IF generator = None
             THEN /\ pc' = "Returned"
                  /\ UNCHANGED <<etag, res, digestVars>>
             ELSE /\ generateDigest(responseBody(res))
                  /\ UNCHANGED <<etag, res>>
  /\ UNCHANGED <<configVars, req, method, ifNoneMatch, handled, nextCalls>>

\* generateDigest, lines 19-21: a read that yields a chunk
DigestRead ==
  /\ pc = "Reading"
  /\ stream # <<>>
  /\ accumulated' = Some(mergeBuffers(accumulated, Head(stream)))
  /\ stream' = Tail(stream)
  /\ UNCHANGED <<configVars, pc, req, method, ifNoneMatch, res, handled,
                 nextCalls, etag, source, hashCalls, hashInput, hash>>

\* variant: the loop is left after the first chunk, read or not to the end
DigestDoneAfterFirstChunk ==
  /\ pc = "Reading"
  /\ stream = <<>> \/ accumulated # None
  /\ hash' = digestOf(accumulated, Get(generator))
  /\ hashCalls' = IF accumulated = None THEN hashCalls ELSE hashCalls + 1
  /\ hashInput' = IF accumulated = None THEN hashInput ELSE accumulated
  /\ pc' = "DigestReturned"
  /\ UNCHANGED <<configVars, req, method, ifNoneMatch, res, handled,
                 nextCalls, etag, source, stream, accumulated>>

\* generateDigest, lines 19-27: the read that reports done, and the hash
DigestDone ==
  /\ pc = "Reading"
  /\ stream = <<>>
  /\ hash' = digestOf(accumulated, Get(generator))
  /\ hashCalls' = IF accumulated = None THEN hashCalls ELSE hashCalls + 1
  /\ hashInput' = IF accumulated = None THEN hashInput ELSE accumulated
  /\ pc' = "DigestReturned"
  /\ UNCHANGED <<configVars, req, method, ifNoneMatch, res, handled,
                 nextCalls, etag, source, stream, accumulated>>

\* etagMiddleware, lines 126-132
AfterDigest ==
  /\ pc = "DigestReturned"
  /\ IF hash = None
       THEN /\ pc' = "Returned"
            /\ UNCHANGED <<etag, res>>
       ELSE /\ etag' = Some(formatETag(Get(hash), weak))
            /\ res' = [res EXCEPT !.headers = setHeader(@, "ETag", Get(etag'))]
            /\ pc' = "ETagResolved"
  /\ UNCHANGED <<configVars, digestVars, req, method, ifNoneMatch, handled,
                 nextCalls>>

\* etagMiddleware, lines 135-144
Evaluate ==
  /\ pc = "ETagResolved"
  /\ IF shouldReturn304(Get(etag), ifNoneMatch, Get(method), res.status)
       THEN /\ res' = [status |-> 304, body |-> None,
                       headers |-> deleteUnretained(res.headers, retainedHeaders)]
            /\ pc' = "Downgraded304"
       ELSE /\ pc' = "PassThrough"
            /\ UNCHANGED res
  /\ UNCHANGED <<configVars, digestVars, req, method, ifNoneMatch, handled,
                 nextCalls, etag>>

Next ==
  \/ Capture
  \/ Handler
  \/ ResolveETag
  \/ DigestRead
  \/ DigestDone
  \/ AfterDigest
  \/ Evaluate

Spec == Init /\ [][Next]_vars

\* generateDigest called on its own, as its tests do
InitD ==
  /\ crypto = TRUE
  /\ options = [retainedHeaders |-> None, weak |-> None, generateDigest |-> None]
  /\ retainedHeaders = RETAINED_304_HEADERS
  /\ weak = FALSE
  /\ generator \in {Some("sha1"), Some("custom")}
  /\ req = [method |-> "GET", ifNoneMatch |-> None]
  /\ InitRequest
  /\ InitDigest

\* the call generateDigest(stream, generator)
DigestCall ==
  /\ pc = "Pending"
  /\ \E s \in DigestStreams : generateDigest(s)
  /\ UNCHANGED <<configVars, req, method, ifNoneMatch, res, handled,
                 nextCalls, etag>>

NextD ==
  \/ DigestCall
  \/ DigestRead
  \/ DigestDone

SpecDigest == InitD /\ [][NextD]_vars

-----------------------------------------------------------------------------
(* Vocabulary of the properties *)

Finished == pc \in {"Returned", "PassThrough", "Downgraded304"}
Evaluated == pc \in {"PassThrough", "Downgraded304"}
Is2xx(status) == status \in 200..299
HandlerETag == getHeader(handled.headers, "ETag")

\* a tag without its leading W/, if it has one
WithoutWeakPrefix(t) ==
  IF Len(t) >= 2 /\ SubSeq(t, 1, 2) = WEAK THEN SubSeq(t, 3, Len(t)) ELSE t

\* the candidates of a comma-separated list: its maximal comma-free
\* segments, without the white space around them
ListCandidates(s) ==
  LET starts == {1} \cup {k + 1 : k \in {i \in 1..Len(s) : s[i] = ","}}
      ends == {Len(s)} \cup {k - 1 : k \in {i \in 1..Len(s) : s[i] = ","}}
  IN  {trim(SubSeq(s, p[1], p[2])) : p \in
         {q \in starts \X ends :
            /\ q[1] <= q[2] + 1
            /\ \A k \in q[1]..q[2] : s[k] # ","}}

TagInList(tag, inm) ==
  /\ inm # None
  /\ \E c \in ListCandidates(Get(inm)) :
       WithoutWeakPrefix(c) = WithoutWeakPrefix(tag)

WildcardApplies == ifNoneMatch = Some(STAR) /\ Get(method) \in {"GET", "HEAD"}

\* the headers other than ETag are the ones the handler set
OtherHeadersKept ==
  /\ DOMAIN res.headers \ {"etag"} = DOMAIN handled.headers \ {"etag"}
  /\ \A n \in DOMAIN res.headers \ {"etag"} : res.headers[n] = handled.headers[n]

-----------------------------------------------------------------------------
(* C1 *)

\* C1, as stated: with an ETag resolved, the response is downgraded to 304
\* if and only if the status is in [200,300) and (If-None-Match is `*` and
\* the method is GET or HEAD, or the ETag equals, weak prefixes stripped, a
\* comma-separated candidate of If-None-Match).
C1_AsStated ==
  Evaluated =>
    (pc = "Downgraded304" <=>
       /\ Is2xx(handled.status)
       /\ WildcardApplies \/ TagInList(Get(etag), ifNoneMatch))

\* C1, amended: the same, where the comparison against the candidates is
\* made only when If-None-Match is not exactly `*`.
C1_Downgrade_Iff ==
  Evaluated =>
    (pc = "Downgraded304" <=>
       /\ Is2xx(handled.status)
       /\ \/ WildcardApplies
          \/ ifNoneMatch # Some(STAR) /\ TagInList(Get(etag), ifNoneMatch))

\* a strong ETag matched by the weak second candidate of a list
C1_Witness ==
  /\ pc = "Downgraded304"
  /\ etag = Some(TagH)
  /\ ifNoneMatch = Some(TagD \o <<" ", ",", " ">> \o WEAK \o TagH)

-----------------------------------------------------------------------------
(* C2 *)

\* C2: if the downstream handler set an ETag header, the response ends
\* with exactly that ETag header, and the digest generator is not invoked.
C2_HandlerETag_Preserved ==
  (Finished /\ HandlerETag # None) =>
    /\ getHeader(res.headers, "ETag") = HandlerETag
    /\ hashCalls = 0

-----------------------------------------------------------------------------
(* C3 *)

\* C3: a response whose status after the handler is outside [200,300) is
\* never downgraded: status, body and the headers other than ETag end as
\* the handler set them.
C3_Non2xx_Untouched ==
  (Finished /\ ~Is2xx(handled.status)) =>
    /\ pc # "Downgraded304"
    /\ res.status = handled.status
    /\ res.body = handled.body
    /\ OtherHeadersKept

\* a redirect whose computed ETag is the one the client sent
C3_Witness ==
  /\ pc = "PassThrough"
  /\ handled.status = 300
  /\ etag = Some(TagD)
  /\ ifNoneMatch = Some(TagD)
  /\ HandlerETag = None

-----------------------------------------------------------------------------
(* C4 *)

\* the response headers right before the downgrade
HeadersBefore304 == setHeader(handled.headers, "ETag", Get(etag))

\* the lower-cased names of the configured list (the default list if none)
RetainedLowered ==
  IF options.retainedHeaders = None
    THEN {RETAINED_304_HEADERS[i] : i \in 1..Len(RETAINED_304_HEADERS)}
    ELSE {toLowerCase(Get(options.retainedHeaders)[i]) :
            i \in 1..Len(Get(options.retainedHeaders))}

\* C4: a downgraded response has status 304 and a null body; a header is
\* present afterwards if and only if it was present before the downgrade
\* and its name is in the lower-cased retained set, and it keeps its value.
C4_Retained_Iff ==
  pc = "Downgraded304" =>
    /\ res.status = 304
    /\ res.body = None
    /\ DOMAIN res.headers = DOMAIN HeadersBefore304 \cap RetainedLowered
    /\ \A n \in DOMAIN res.headers : res.headers[n] = HeadersBefore304[n]

\* a list written in mixed case keeps ETag and X-Custom-Header only
C4_Witness ==
  /\ pc = "Downgraded304"
  /\ options.retainedHeaders = Some(<<"ETag", "X-Custom-Header">>)
  /\ DOMAIN handled.headers = {"cache-control", "content-type", "x-custom-header"}
  /\ DOMAIN res.headers = {"etag", "x-custom-header"}

-----------------------------------------------------------------------------
(* C5 *)

\* C5: every response downgraded to 304 carries the ETag header with the
\* resolved ETag value.
C5_304_Carries_ETag ==
  pc = "Downgraded304" => getHeader(res.headers, "ETag") = etag

-----------------------------------------------------------------------------
(* C6 *)

\* C6: with If-None-Match exactly `*`, a 2xx response and a resolved ETag,
\* the response is downgraded for GET and HEAD, and for every other method
\* it is not: status and body stay as the handler set them.
C6_Wildcard_By_Method ==
  (Evaluated /\ ifNoneMatch = Some(STAR) /\ Is2xx(handled.status)) =>
    IF Get(method) \in {"GET", "HEAD"}
      THEN pc = "Downgraded304" /\ res.status = 304
      ELSE /\ pc = "PassThrough"
           /\ res.status = handled.status
           /\ res.body = handled.body

\* a POST with `*`, even against an ETag that reads `*`
C6_Witness ==
  /\ pc = "PassThrough"
  /\ req.ifNoneMatch = Some(<<" ", "*", " ">>)
  /\ Get(method) = "POST"
  /\ handled.status = 200
  /\ etag = Some(STAR)

-----------------------------------------------------------------------------
(* C7 *)

\* C7: without an If-None-Match header, or with one that is empty after
\* trimming, the response is never downgraded.
C7_No_Validator_No_304 ==
  (Finished /\ (ifNoneMatch = None \/ ifNoneMatch = Some(<<>>))) =>
    pc # "Downgraded304"

-----------------------------------------------------------------------------
(* C8 *)

\* C8: if the handler set no ETag and either no digest generator is
\* available (no custom one, no platform crypto) or the digest of the body
\* is null, the middleware returns with the response as the handler left
\* it: no ETag header, no 304.
C8_No_ETag_Unmodified ==
  (/\ Finished
   /\ HandlerETag = None
   /\ \/ options.generateDigest = None /\ ~crypto
      \/ hash = None) =>
    /\ pc = "Returned"
    /\ res = handled
    /\ getHeader(res.headers, "ETag") = None

\* no generator at all, and a GET with `*` on a 200
C8_Witness ==
  /\ pc = "Returned"
  /\ ~crypto
  /\ ifNoneMatch = Some(STAR)
  /\ Get(method) = "GET"
  /\ handled.status = 200
  /\ handled.body = Some(<< <<7>> >>)

-----------------------------------------------------------------------------
(* C9 *)

StartsWith(s, prefix) ==
  Len(s) >= Len(prefix) /\ SubSeq(s, 1, Len(prefix)) = prefix

\* C9: given weak=true, a computed ETag begins with W/" on the response,
\* and a request whose If-None-Match is the same quoted digest without W/
\* gets a 304 for a 2xx response.
C9_Weak_Prefix_And_Match ==
  (/\ pc \in {"ETagResolved", "PassThrough", "Downgraded304"}
   /\ options.weak = Some(TRUE)
   /\ HandlerETag = None) =>
    /\ StartsWith(Get(etag), <<"W", "/", QUOTE>>)
    /\ pc # "Downgraded304" => getHeader(res.headers, "ETag") = etag
    /\ (Evaluated /\ Is2xx(handled.status)
          /\ ifNoneMatch = Some(Quoted(Get(hash)))) =>
         pc = "Downgraded304" /\ res.status = 304

\* the weak tag of the body <<7>>, matched by its strong form
C9_Witness ==
  /\ pc = "Downgraded304"
  /\ options.weak = Some(TRUE)
  /\ etag = Some(WEAK \o TagD)
  /\ ifNoneMatch = Some(TagD)
  /\ HandlerETag = None

-----------------------------------------------------------------------------
(* C10 *)

RECURSIVE concat(_)
concat(chunks) ==
  IF chunks = <<>> THEN <<>> ELSE Head(chunks) \o concat(Tail(chunks))

\* C10: generateDigest returns null, without invoking the hash function,
\* whenever the stream is absent or everything read from it concatenates
\* to a zero-length buffer.
C10_Empty_Is_Null ==
  (pc = "DigestReturned" /\ (source = None \/ concat(Get(source)) = <<>>)) =>
    hash = None /\ hashCalls = 0

-----------------------------------------------------------------------------
(* C11 *)

\* the two lower-case hexadecimal characters of a byte
HexOfByte(b) == <<HexDigits[(b \div 16) + 1], HexDigits[(b % 16) + 1]>>

\* C11: for a stream whose chunks concatenate to a non-empty buffer,
\* generateDigest invokes the hash function exactly once, on the
\* concatenation of the chunks in the order read, and returns two
\* lower-case hexadecimal characters per byte of the hash output, in order:
\* a function of the content alone, of twice the output's length.
C11_Digest_Of_Content ==
  (/\ pc = "DigestReturned"
   /\ source # None
   /\ concat(Get(source)) # <<>>) =>
    LET content == concat(Get(source))
        out == callGenerator(Get(generator), content)
    IN  /\ hashCalls = 1
        /\ hashInput = Some(content)
        /\ hash # None
        /\ Len(Get(hash)) = 2 * Len(out)
        /\ \A i \in 1..Len(out) :
             SubSeq(Get(hash), 2 * i - 1, 2 * i) = HexOfByte(out[i])

\* two chunks with different bytes, read in order
C11_Witness ==
  /\ pc = "DigestReturned"
  /\ source = Some(<< <<7>>, <<250>> >>)
  /\ hashInput = Some(<<7, 250>>)
  /\ hashCalls = 1

-----------------------------------------------------------------------------
(* C12 *)

\* the 304 condition, as C1 settles it
Condition304 ==
  /\ Is2xx(handled.status)
  /\ \/ WildcardApplies
     \/ ifNoneMatch # Some(STAR) /\ TagInList(Get(etag), ifNoneMatch)

\* C12: when an ETag is resolved and the 304 condition does not hold, the
\* response is returned as the handler produced it apart from the ETag
\* header: same status, same body (not consumed by the digest), same other
\* headers, and the ETag header holds the resolved value.
C12_PassThrough_Unmodified ==
  (Evaluated /\ ~Condition304) =>
    /\ pc = "PassThrough"
    /\ res.status = handled.status
    /\ res.body = handled.body
    /\ OtherHeadersKept
    /\ getHeader(res.headers, "ETag") = etag

\* a 200 whose body was drained for the digest and whose tag the request
\* does not carry
C12_Witness ==
  /\ pc = "PassThrough"
  /\ handled.status = 200
  /\ hash # None
  /\ source = Some(<< <<7>> >>)
  /\ stream = <<>>
  /\ res.body = Some(<< <<7>> >>)
  /\ ifNoneMatch = Some(WEAK \o TagH)
  /\ DOMAIN handled.headers = {"cache-control", "content-type", "x-custom-header"}

-----------------------------------------------------------------------------
(* C13 *)

\* the value line 116 captures from the request
CapturedIfNoneMatch ==
  IF req.ifNoneMatch = None THEN None ELSE Some(trim(Get(req.ifNoneMatch)))

\* C13: within one request the steps are ordered.  The method and the
\* If-None-Match value are captured before the downstream handler is
\* invoked; the handler is invoked exactly once, and the middleware
\* changes no response header before it has completed; the body stream is
\* drained to its end before the digest becomes the ETag; and a response
\* is downgraded only after its ETag header has been set.
C13_Step_Order ==
  [][/\ (nextCalls' # nextCalls) =>
          /\ nextCalls = 0
          /\ method = Some(req.method)
          /\ ifNoneMatch = CapturedIfNoneMatch
     /\ Finished' => nextCalls' = 1
     /\ (nextCalls' = nextCalls /\ res'.headers # res.headers) => nextCalls = 1
     /\ (etag' # etag /\ HandlerETag = None) =>
          /\ nextCalls = 1
          /\ source # None
          /\ stream = <<>>
          /\ hashInput = Some(concat(Get(source)))
          /\ hash # None
     /\ (pc' = "Downgraded304" /\ pc # "Downgraded304") =>
          /\ pc = "ETagResolved"
          /\ etag # None
          /\ getHeader(res.headers, "ETag") = etag
    ]_vars

\* a downgrade at the end of the longest path: capture, handler, two
\* reads, hash, ETag header, evaluation
C13_Witness ==
  /\ pc = "Downgraded304"
  /\ nextCalls = 1
  /\ source = Some(<< <<>>, <<250>> >>)
  /\ stream = <<>>
  /\ hashCalls = 1
  /\ ifNoneMatch = Some(STAR)
  /\ req.ifNoneMatch = Some(<<" ", "*", " ">>)

====
